---- MODULE Spec2Model ----
(***************************************************************************)
(* The tools of my_server.py as a state machine: one tool invocation at a  *)
(* time runs from "idle" through "sending" and "normalizing" to "done".    *)
(* The upstream services are the environment: the outcome of a network     *)
(* call (a response after zero or more redirects, or an exception) is      *)
(* chosen nondeterministically.                                            *)
(*                                                                         *)
(* Python values are records [type, val]; a Python str whose characters    *)
(* matter (the query, a URL, a response body) is a sequence of one         *)
(* character strings, every other str is a TLA+ string.                    *)
(***************************************************************************)
EXTENDS Integers, Sequences, FiniteSets, TLC

VARIABLES
    QSC_TOKEN,   \* the module global read from the environment at import
    tool,        \* the tool being invoked, "none" when idle
    pc,          \* position of the invocation
    q,           \* search_products: the argument q
    url,         \* search_products: the local url
    doc_id,      \* _send_to_qsc_internal: the parameter doc_id
    data,        \* _send_to_qsc_internal: the parameter data
    now,         \* the clock reading taken by datetime.now
    documents,   \* _send_to_qsc_internal: the local documents
    resp,        \* the local resp, unbound until client.get/post returns
    exc,         \* the exception client.get/post raised, if any
    attempts,    \* client.get/client.post calls made by this invocation
    returned,    \* TRUE once the tool has returned a value
    result,      \* the value returned
    raised       \* the exception type that escaped the tool, "none" if none

vars == <<QSC_TOKEN, tool, pc, q, url, doc_id, data, now, documents,
          resp, exc, attempts, returned, result, raised>>

----------------------------------------------------------------------------
(* Bounds of the model *)

MaxQLen == 2

MaxRedirects == 1

MaxExtra == 1

MaxClock == 2

(* Program constants *)

BodyLimit == 2000

SendFailureStatus == 500

----------------------------------------------------------------------------
(* Python values *)

None == [type |-> "NoneType", val |-> ""]

Str(s) == [type |-> "str", val |-> s]

Truthy(v) == v.type = "str" /\ v.val # ""

Whitespace == {" ", "\t"}

QueryAlphabet == {"a", "+"} \cup Whitespace

QueryStrings == UNION {[1..n -> QueryAlphabet] : n \in 0..MaxQLen}

NoQuery == [type |-> "NoneType", val |-> <<>>]

QueryInputs ==
    {[type |-> "str", val |-> s] : s \in QueryStrings}
        \cup {NoQuery, [type |-> "int", val |-> <<"4", "2">>]}

RECURSIVE LStrip(_)
LStrip(s) ==
    IF s # <<>> /\ Head(s) \in Whitespace THEN LStrip(Tail(s)) ELSE s

RECURSIVE RStrip(_)
RStrip(s) ==
    IF s # <<>> /\ s[Len(s)] \in Whitespace
    THEN RStrip(SubSeq(s, 1, Len(s) - 1))
    ELSE s

Strip(s) == RStrip(LStrip(s))

(* urllib.parse.quote_plus on the model's alphabet: unreserved characters    *)
(* stay, a space becomes "+", anything else becomes its %XX escape.          *)
QuoteChar(c) ==
    CASE c = " " -> <<"+">>
      [] c = "+" -> <<"%", "2", "B">>
      [] c = "\t" -> <<"%", "0", "9">>
      [] OTHER -> <<c>>

RECURSIVE QuotePlus(_)
QuotePlus(s) ==
    IF s = <<>> THEN <<>> ELSE QuoteChar(Head(s)) \o QuotePlus(Tail(s))

UrlEncodeQ(s) == <<"q", "=">> \o QuotePlus(s)

SearchEndpoint == <<"https://qsc.quasiris.de/api/v1/search/ab/products", "?">>

BuildUrlTrimmed(query) == SearchEndpoint \o UrlEncodeQ(Strip(query.val))

BuildUrl(query) == SearchEndpoint \o UrlEncodeQ(query.val)

IsValidQueryNoStrip(query) == query.type = "str" /\ query.val # <<>>

IsValidQuery(query) == query.type = "str" /\ Strip(query.val) # <<>>

ValidationError == [error |-> "Parameter 'q' must be a non-empty string."]

----------------------------------------------------------------------------
(* The upstream: responses and exceptions of httpx *)

Unbound == [bound |-> FALSE, status_code |-> 0, text |-> <<>>, url |-> <<>>, hops |-> 0]

NoExc == [kind |-> "none", msg |-> ""]

Statuses == {200, 204, 304, 404, 503}

ProductsText ==
    <<"{", "\"", "p", "r", "o", "d", "u", "c", "t", "s", "\"", ":", " ", "[", "]", "}">>

LongText(n) == [i \in 1..n |-> IF i % 7 = 0 THEN "y" ELSE "x"]

Bodies ==
    {<<>>, ProductsText, <<"o", "k">>}
        \cup {LongText(n) : n \in (BodyLimit - 1)..(BodyLimit + MaxExtra)}

(* Response.json() on the bodies of the model: which of them are JSON documents *)
JsonLoads(text) ==
    IF text = ProductsText
    THEN [ok |-> TRUE, value |-> [products |-> <<>>]]
    ELSE [ok |-> FALSE, value |-> [products |-> <<>>]]

JsonErrorMessage == "Expecting value: line 1 column 1 (char 0)"

(* The URL a followed redirect leads to *)
Location(n) == <<"https://qsc.quasiris.de/redirected/", ToString(n)>>

TransportErrors ==
    {[kind |-> "ConnectTimeout", msg |-> "timed out"],
     [kind |-> "ConnectError", msg |-> "[Errno -2] Name or service not known"],
     [kind |-> "TooManyRedirects", msg |-> "Exceeded maximum allowed redirects."],
     [kind |-> "RuntimeError", msg |-> "Cannot send a request, as the client has been closed."]}

(* The classes an exception kind is an instance of *)
Bases(kind) ==
    CASE kind \in {"ConnectTimeout", "ConnectError", "TooManyRedirects"} ->
            {"RequestError", "HTTPError", "Exception"}
      [] kind = "HTTPStatusError" -> {"HTTPStatusError", "HTTPError", "Exception"}
      [] kind = "JSONDecodeError" -> {"ValueError", "Exception"}
      [] OTHER -> {"Exception"}

IsSuccessBelow400(status) == status < 400

IsSuccess(status) == 200 <= status /\ status <= 299

(* client.get / client.post with follow_redirects=True: the response that    *)
(* ends the redirect chain; its request is the last one sent.                *)
Responses(requested) ==
    {[bound |-> TRUE, status_code |-> s, text |-> t,
      url |-> IF h = 0 THEN requested ELSE Location(h), hops |-> h] :
        s \in Statuses, t \in Bodies, h \in 0..MaxRedirects}

----------------------------------------------------------------------------
(* search_products *)

Min(a, b) == IF a < b THEN a ELSE b

BodyUntruncated(text) == text

(* text[:2000] *)
Truncate(text) == SubSeq(text, 1, Min(Len(text), BodyLimit))

(* The exception the body of the try statement ends with, NoExc when it      *)
(* returns: what client.get raised, else raise_for_status, else resp.json(). *)
SearchTry(r, e) ==
    IF e.kind # "none" THEN e
    ELSE IF ~IsSuccess(r.status_code)
    THEN [kind |-> "HTTPStatusError", msg |-> "error response"]
    ELSE IF ~JsonLoads(r.text).ok
    THEN [kind |-> "JSONDecodeError", msg |-> JsonErrorMessage]
    ELSE NoExc

Returns(v) == [returned |-> TRUE, value |-> v, raised |-> "none"]

Raises(kind) == [returned |-> FALSE, value |-> [unset |-> TRUE], raised |-> kind]

SearchExceptNoCatchAll(r, e) ==
    IF "HTTPStatusError" \in Bases(e.kind)
    THEN Returns([error |-> "Upstream HTTP error", status_code |-> r.status_code,
                  url |-> r.url, body |-> Truncate(r.text)])
    ELSE IF "RequestError" \in Bases(e.kind)
    THEN Returns([error |-> "Network error: " \o e.msg])
    ELSE IF "ValueError" \in Bases(e.kind)
    THEN Returns([error |-> "Invalid JSON from upstream: " \o e.msg])
    ELSE Raises(e.kind)

(* The except clauses, in their order *)
SearchExcept(r, e) ==
    IF "HTTPStatusError" \in Bases(e.kind)
    THEN Returns([error |-> "Upstream HTTP error", status_code |-> r.status_code,
                  url |-> r.url, body |-> Truncate(r.text)])
    ELSE IF "RequestError" \in Bases(e.kind)
    THEN Returns([error |-> "Network error: " \o e.msg])
    ELSE IF "ValueError" \in Bases(e.kind)
    THEN Returns([error |-> "Invalid JSON from upstream: " \o e.msg])
    ELSE Returns([error |-> "Unexpected error: " \o e.msg])

SearchOutcome(r, e) ==
    IF SearchTry(r, e).kind = "none"
    THEN Returns(JsonLoads(r.text).value)
    ELSE SearchExcept(r, SearchTry(r, e))

NoResult == [unset |-> TRUE]

NoData == [f \in {} |-> ""]

Idle ==
    /\ tool = "none" /\ pc = "idle"
    /\ q = NoQuery /\ url = <<>>
    /\ doc_id = "" /\ data = NoData /\ now = 0 /\ documents = <<>>
    /\ resp = Unbound /\ exc = NoExc /\ attempts = 0
    /\ returned = FALSE /\ result = NoResult /\ raised = "none"

Tokens == {None, Str(""), Str("secret")}

Init == QSC_TOKEN \in Tokens /\ Idle

(* search_products up to the try statement *)
search_products(query) ==
    /\ pc = "idle"
    /\ tool' = "search_products"
    /\ q' = query
    /\ IF ~IsValidQuery(query)
       THEN /\ returned' = TRUE /\ result' = ValidationError
            /\ url' = url /\ pc' = "done"
       ELSE /\ returned' = FALSE /\ result' = result
            /\ url' = BuildUrl(query) /\ pc' = "sending"
    /\ UNCHANGED <<QSC_TOKEN, doc_id, data, now, documents, resp, exc, attempts, raised>>

(* client.get(url): one call, whose outcome the upstream decides *)
SearchGet ==
    /\ pc = "sending" /\ tool = "search_products"
    /\ attempts' = attempts + 1
    /\ \/ /\ resp' \in Responses(url) /\ exc' = NoExc
       \/ /\ exc' \in TransportErrors /\ resp' = resp
    /\ pc' = "normalizing"
    /\ UNCHANGED <<QSC_TOKEN, tool, q, url, doc_id, data, now, documents,
                   returned, result, raised>>

SearchNormalizeRetry ==
    /\ pc = "normalizing" /\ tool = "search_products"
    /\ IF "RequestError" \in Bases(SearchTry(resp, exc).kind) /\ attempts < 2
       THEN /\ pc' = "sending" /\ exc' = NoExc
            /\ UNCHANGED <<returned, result, raised>>
       ELSE /\ returned' = SearchOutcome(resp, exc).returned
            /\ result' = SearchOutcome(resp, exc).value
            /\ raised' = SearchOutcome(resp, exc).raised
            /\ pc' = "done" /\ exc' = exc
    /\ UNCHANGED <<QSC_TOKEN, tool, q, url, doc_id, data, now, documents, resp, attempts>>

(* raise_for_status, resp.json() and the except clauses *)
SearchNormalize ==
    /\ pc = "normalizing" /\ tool = "search_products"
    /\ returned' = SearchOutcome(resp, exc).returned
    /\ result' = SearchOutcome(resp, exc).value
    /\ raised' = SearchOutcome(resp, exc).raised
    /\ pc' = "done"
    /\ UNCHANGED <<QSC_TOKEN, tool, q, url, doc_id, data, now, documents, resp, exc, attempts>>

----------------------------------------------------------------------------
(* The document-send tools *)

SendTools == {"send_message", "add_to_cart", "send_to_qsc", "send_to_qsc_with_doc_id"}

QSC_URL == <<"https://qsc-dev.quasiris.de/api/v1/data/bulk/qsc/demo/messages">>

(* str(uuid.uuid4()): a value the caller cannot predict *)
Uuids == {"uuid-1", "uuid-2"}

Clock == 1..MaxClock

(* datetime.now(ZoneInfo("Europe/Berlin")).isoformat() *)
IsoFormat(t) == "2025-06-01T12:00:0" \o ToString(t) \o "+02:00"

Messages == {"hello", ""}

CallerFields == {"id", "timestamp", "note"}

CallerValue(f) ==
    CASE f = "id" -> "caller-id"
      [] f = "timestamp" -> "caller-timestamp"
      [] OTHER -> "caller-note"

(* The mappings a caller of send_to_qsc passes as data *)
CallerData == {[f \in S |-> CallerValue(f)] : S \in SUBSET CallerFields}

CallerDocIds == {None, Str(""), Str("doc-7")}

TokenIsNone == QSC_TOKEN.type = "NoneType"

(* not QSC_TOKEN *)
TokenMissing == ~Truthy(QSC_TOKEN)

(* {"id": doc_id, "timestamp": ..., **data}: a later key replaces an earlier one *)
Payload(id, d, t) == d @@ [id |-> id, timestamp |-> IsoFormat(t)]

Documents(id, d, t) ==
    <<[header |-> [id |-> id, action |-> "update"], payload |-> Payload(id, d, t)]>>

(* _send_to_qsc_internal up to the try statement *)
_send_to_qsc_internal(id, d) ==
    /\ doc_id' = id
    /\ data' = d
    /\ IF TokenMissing
       THEN /\ raised' = "RuntimeError" /\ pc' = "done"
            /\ UNCHANGED <<now, documents>>
       ELSE /\ \E t \in Clock : now' = t /\ documents' = Documents(id, d, t)
            /\ raised' = raised /\ pc' = "sending"
    /\ UNCHANGED <<QSC_TOKEN, q, url, resp, exc, attempts, returned, result>>

send_to_qsc_with_doc_id(id, d) ==
    IF ~Truthy(id)
    THEN \E u \in Uuids : _send_to_qsc_internal(u, d)
    ELSE _send_to_qsc_internal(id.val, d)

SendMessageDocNoId(msg_id, message) ==
    [id |-> "", type |-> "message", message |-> message]

SendMessageDoc(msg_id, message) ==
    [id |-> msg_id, type |-> "message", message |-> message]

AddToCartDoc(msg_id, cartId, customerId, sku) ==
    [id |-> msg_id, type |-> "addToCart", cartId |-> cartId, sku |-> sku,
     customerId |-> customerId]

send_message(message) ==
    /\ pc = "idle"
    /\ tool' = "send_message"
    /\ \E msg_id \in Uuids :
          send_to_qsc_with_doc_id(Str(msg_id), SendMessageDoc(msg_id, message))

add_to_cart(cartId, customerId, sku) ==
    /\ pc = "idle"
    /\ tool' = "add_to_cart"
    /\ \E msg_id \in Uuids :
          send_to_qsc_with_doc_id(Str(msg_id), AddToCartDoc(msg_id, cartId, customerId, sku))

send_to_qsc(d) ==
    /\ pc = "idle"
    /\ tool' = "send_to_qsc"
    /\ \E u \in Uuids : _send_to_qsc_internal(u, d)

call_send_to_qsc_with_doc_id(id, d) ==
    /\ pc = "idle"
    /\ tool' = "send_to_qsc_with_doc_id"
    /\ send_to_qsc_with_doc_id(id, d)

(* client.post(QSC_URL, json=documents, ...): one call *)
SendPost ==
    /\ pc = "sending" /\ tool \in SendTools
    /\ attempts' = attempts + 1
    /\ \/ /\ resp' \in Responses(QSC_URL) /\ exc' = NoExc
       \/ /\ exc' \in TransportErrors /\ resp' = resp
    /\ pc' = "normalizing"
    /\ UNCHANGED <<QSC_TOKEN, tool, q, url, doc_id, data, now, documents,
                   returned, result, raised>>

(* The result built in the try statement *)
SendResult(id, r) ==
    [id |-> id, status |-> r.status_code, ok |-> IsSuccess(r.status_code), text |-> r.text]

(* The result built in the except clause, which reads resp *)
SendFailure(id, r) ==
    IF r.bound
    THEN Returns([id |-> id, status |-> SendFailureStatus,
                  ok |-> IsSuccess(r.status_code), text |-> r.text])
    ELSE Raises("UnboundLocalError")

SendOutcome(id, r, e) ==
    IF e.kind = "none" THEN Returns(SendResult(id, r)) ELSE SendFailure(id, r)

(* The return in the try statement, or the except clause *)
SendNormalize ==
    /\ pc = "normalizing" /\ tool \in SendTools
    /\ returned' = SendOutcome(doc_id, resp, exc).returned
    /\ result' = SendOutcome(doc_id, resp, exc).value
    /\ raised' = SendOutcome(doc_id, resp, exc).raised
    /\ pc' = "done"
    /\ UNCHANGED <<QSC_TOKEN, tool, q, url, doc_id, data, now, documents, resp, exc, attempts>>

(* The framework hands the outcome to the caller; the next call starts afresh *)
Return ==
    /\ pc = "done"
    /\ tool' = "none" /\ pc' = "idle"
    /\ q' = NoQuery /\ url' = <<>>
    /\ doc_id' = "" /\ data' = NoData /\ now' = 0 /\ documents' = <<>>
    /\ resp' = Unbound /\ exc' = NoExc /\ attempts' = 0
    /\ returned' = FALSE /\ result' = NoResult /\ raised' = "none"
    /\ UNCHANGED QSC_TOKEN

CartIds == {"cart-1"}

CustomerIds == {"customer-1"}

Skus == {"sku-1", "sku-2"}

Next ==
    \/ \E query \in QueryInputs : search_products(query)
    \/ SearchGet
    \/ SearchNormalize
    \/ \E message \in Messages : send_message(message)
    \/ \E c \in CartIds, k \in CustomerIds, s \in Skus : add_to_cart(c, k, s)
    \/ \E d \in CallerData : send_to_qsc(d)
    \/ \E id \in CallerDocIds, d \in CallerData : call_send_to_qsc_with_doc_id(id, d)
    \/ SendPost
    \/ SendNormalize
    \/ Return

Spec == Init /\ [][Next]_vars

----------------------------------------------------------------------------
(* The properties *)

Envelope == documents[1]

TransportFailed == exc.kind # "none"

CredentialConfigured == QSC_TOKEN.type = "str" /\ QSC_TOKEN.val # ""

IsBlank(s) == \A i \in 1..Len(s) : s[i] \in {" ", "\t"}

Rejected(query) == query.type # "str" \/ IsBlank(query.val)

IsPrefix(a, b) == Len(a) <= Len(b) /\ \A i \in 1..Len(a) : a[i] = b[i]

(* The q parameter as the upstream decodes it from a query string *)
RECURSIVE UnquotePlus(_)
UnquotePlus(s) ==
    IF s = <<>> THEN <<>>
    ELSE IF Head(s) = "+" THEN <<" ">> \o UnquotePlus(Tail(s))
    ELSE IF Head(s) = "%" /\ Len(s) >= 3
    THEN <<(CASE SubSeq(s, 2, 3) = <<"2", "B">> -> "+"
              [] SubSeq(s, 2, 3) = <<"0", "9">> -> "\t"
              [] OTHER -> "?")>> \o UnquotePlus(SubSeq(s, 4, Len(s)))
    ELSE <<Head(s)>> \o UnquotePlus(Tail(s))

RequestedPrefix == SearchEndpoint \o <<"q", "=">>

RequestedQ == UnquotePlus(SubSeq(url, Len(RequestedPrefix) + 1, Len(url)))

(* C1: with the credential configured, a document-send whose transport call  *)
(* failed (no response exists) still returns {id, status, ok, text} with the *)
(* dispatch identifier, the sentinel status, ok = false and an empty text,   *)
(* and raises nothing.                                                       *)
C1_TransportFailureSafeDefaults ==
    (tool \in SendTools /\ pc = "done" /\ CredentialConfigured /\ TransportFailed)
        => /\ returned
           /\ raised = "none"
           /\ result = [id |-> Envelope.header.id, status |-> SendFailureStatus,
                        ok |-> FALSE, text |-> <<>>]

(* C2: a query that is not a string, is empty or is blank is answered with   *)
(* the parameter error and no network call is started: the invocation is     *)
(* never at "sending" or "normalizing", and it has no URL and no response.   *)
C2_BlankQueryRejected ==
    (tool = "search_products" /\ Rejected(q))
        => /\ pc = "done"
           /\ returned /\ raised = "none"
           /\ result = [error |-> "Parameter 'q' must be a non-empty string."]
           /\ attempts = 0 /\ url = <<>> /\ ~resp.bound

C2_Witness ==
    /\ tool = "search_products" /\ pc = "done"
    /\ q.type = "str" /\ q.val = <<" ", "\t">>
    /\ result = ValidationError

C3_Case ==
    /\ tool = "search_products" /\ pc = "done"
    /\ resp.bound /\ resp.status_code >= 400

C3_ErrorObject ==
    /\ returned /\ raised = "none"
    /\ DOMAIN result = {"error", "status_code", "url", "body"}
    /\ result.error = "Upstream HTTP error"
    /\ result.status_code = resp.status_code
    /\ Len(result.body) <= 2000
    /\ Len(result.body) = (IF Len(resp.text) < 2000 THEN Len(resp.text) ELSE 2000)
    /\ IsPrefix(result.body, resp.text)

(* C3 as stated: for a 4xx/5xx response the error object carries the status, *)
(* the first 2000 characters of the response text, and the URL that the tool *)
(* requested.                                                                *)
C3_UrlIsRequestedUrl ==
    C3_Case => (C3_ErrorObject /\ result.url = url)

(* C3 as amended: the error object carries the status, the first 2000        *)
(* characters of the response text, and the URL of the request the error     *)
(* response answers: the requested URL when no redirect was followed, the    *)
(* last redirect target otherwise.                                           *)
C3_UrlIsLastRequestUrl ==
    C3_Case => /\ C3_ErrorObject
               /\ result.url = resp.url
               /\ (resp.hops = 0 => result.url = url)
               /\ (resp.hops > 0 => result.url = Location(resp.hops))

C3_Witness ==
    /\ C3_Case /\ resp.status_code = 503 /\ resp.hops = 0
    /\ Len(resp.text) > 2000 /\ Len(result.body) = 2000
    /\ result.url = url

(* C4: with the credential configured, for every response the upstream       *)
(* returns, whatever its status, the send path returns {id, status, ok,      *)
(* text}: the dispatch identifier, the response's status, ok exactly for a   *)
(* 2xx status, and the response body; never an error object, never a raise.  *)
C4_UniformEnvelope ==
    (tool \in SendTools /\ pc = "done" /\ resp.bound)
        => /\ CredentialConfigured
           /\ returned /\ raised = "none"
           /\ DOMAIN result = {"id", "status", "ok", "text"}
           /\ result.id = Envelope.header.id
           /\ result.status = resp.status_code
           /\ result.ok = (resp.status_code \in 200..299)
           /\ result.text = resp.text

C4_Witness ==
    /\ tool = "send_message" /\ pc = "done" /\ resp.bound
    /\ resp.status_code = 304 /\ returned /\ result.ok = FALSE

(* C5: a search with a valid query returns exactly one result whatever the   *)
(* upstream does, and raises nothing: the parsed body on a 2xx JSON          *)
(* response, otherwise the error object of the failure's kind. Until then    *)
(* the invocation always has its next step to take.                          *)
C5_SearchAlwaysReturns ==
    /\ (tool = "search_products" /\ pc # "done") => ENABLED (SearchGet \/ SearchNormalize)
    /\ (tool = "search_products" /\ pc = "done" /\ ~Rejected(q))
        => /\ returned /\ raised = "none"
           /\ (exc.kind \in {"ConnectTimeout", "ConnectError", "TooManyRedirects"}
                  => result = [error |-> "Network error: " \o exc.msg])
           /\ (exc.kind = "RuntimeError"
                  => result = [error |-> "Unexpected error: " \o exc.msg])
           /\ (resp.bound /\ resp.status_code >= 400
                  => result.error = "Upstream HTTP error")
           /\ (resp.bound /\ resp.status_code \in 200..299 /\ resp.text = ProductsText
                  => result = [products |-> <<>>])
           /\ (resp.bound /\ resp.status_code \in 200..299 /\ resp.text # ProductsText
                  => result = [error |-> "Invalid JSON from upstream: " \o JsonErrorMessage])
           /\ (exc.kind = "none" <=> resp.bound)

C5_Witness ==
    /\ tool = "search_products" /\ pc = "done"
    /\ exc.kind = "RuntimeError" /\ returned
    /\ result = [error |-> "Unexpected error: Cannot send a request, as the client has been closed."]

(* C6: without the credential (absent or empty) every send-type operation    *)
(* raises the configuration error, returns nothing and makes no network      *)
(* call, while search_products still runs and returns its result.            *)
C6_MissingCredential ==
    ~CredentialConfigured
        => /\ (tool \in SendTools
                  => /\ pc = "done" /\ raised = "RuntimeError" /\ ~returned
                     /\ attempts = 0 /\ documents = <<>> /\ ~resp.bound)
           /\ (tool = "search_products" /\ pc = "done"
                  => /\ returned /\ raised = "none"
                     /\ (~Rejected(q) => attempts = 1))

C6_Witness ==
    /\ QSC_TOKEN = Str("") /\ tool = "add_to_cart" /\ pc = "done"
    /\ raised = "RuntimeError" /\ attempts = 0

(* C7: an invocation makes at most one network attempt, exactly one once it  *)
(* has passed validation or the credential check and finished, none          *)
(* otherwise; a connection timeout on search gives the network error after   *)
(* one attempt.                                                              *)
C7_SingleAttempt ==
    /\ attempts <= 1
    /\ (pc = "done" /\ tool = "search_products"
           => attempts = (IF Rejected(q) THEN 0 ELSE 1))
    /\ (pc = "done" /\ tool \in SendTools
           => attempts = (IF CredentialConfigured THEN 1 ELSE 0))
    /\ (pc = "done" /\ tool = "search_products" /\ exc.kind = "ConnectTimeout"
           => result = [error |-> "Network error: timed out"])

C7_Witness ==
    /\ pc = "done" /\ tool = "search_products" /\ exc.kind = "ConnectTimeout"
    /\ attempts = 1 /\ returned

(* C8: the envelope send_message and add_to_cart post has one element, whose *)
(* header.action is "update" and whose header.id equals payload.id; a        *)
(* result returned to the caller carries that identifier as its id.          *)
C8_EnvelopeIdentity ==
    (tool \in {"send_message", "add_to_cart"} /\ documents # <<>>)
        => /\ Len(documents) = 1
           /\ Envelope.header.action = "update"
           /\ Envelope.header.id = Envelope.payload.id
           /\ Envelope.header.id \in Uuids
           /\ (returned => result.id = Envelope.header.id)

C8_Witness ==
    /\ tool = "send_message" /\ pc = "done" /\ attempts = 1 /\ returned
    /\ result.id = Envelope.payload.id
    /\ Envelope.payload.message = "hello"

(* C9: for any caller-supplied mapping, also one with a field id or          *)
(* timestamp, the payload carries the system-assigned id (the dispatch       *)
(* identifier, equal to header.id) and the system-assigned timestamp, and    *)
(* every other caller field unchanged.                                       *)
C9_SystemFieldsTakePrecedence ==
    (tool \in {"send_to_qsc", "send_to_qsc_with_doc_id"} /\ documents # <<>>)
        => /\ Envelope.payload.id = doc_id
           /\ Envelope.payload.id = Envelope.header.id
           /\ Envelope.payload.timestamp = IsoFormat(now)
           /\ \A f \in DOMAIN data \ {"id", "timestamp"} : Envelope.payload[f] = data[f]

C10_Case == tool = "search_products" /\ attempts >= 1

(* C10 as stated: the URL requested is the search endpoint followed by ?q=   *)
(* and the encoded trimmed query.                                            *)
C10_UrlCarriesTrimmedQuery ==
    C10_Case => /\ IsPrefix(RequestedPrefix, url)
                /\ RequestedQ = Strip(q.val)

(* C10 as amended: the URL requested is the search endpoint followed by ?q=  *)
(* and the encoded query exactly as the caller passed it; surrounding        *)
(* whitespace is encoded and sent.                                           *)
C10_UrlCarriesQueryAsPassed ==
    C10_Case => /\ IsPrefix(RequestedPrefix, url)
                /\ RequestedQ = q.val
                /\ Len(url) >= Len(RequestedPrefix) + Len(q.val)

C10_Witness ==
    /\ C10_Case /\ q.val = <<" ", "a">>
    /\ url = SearchEndpoint \o <<"q", "=", "+", "a">>

====
